---------------------------- MODULE Spec2Model ----------------------------
(***************************************************************************)
(* Model of the CoAlign belief-confidence layer:                           *)
(*   - BeliefMetrics.get_divergence and choose_belief_action               *)
(*     (habitat_llm/planner/belief_hooks.py),                              *)
(*   - map_detection_to_concepts (habitat_llm/perception/concept_mapping), *)
(*   - the concept annotation layer of the world graph,                    *)
(*   - the log reader and series preparation of                            *)
(*     scripts/visualize_belief_divergence.py.                             *)
(*                                                                         *)
(* Numbers.  Divergences, confidences and thresholds are Python floats.    *)
(* They are modelled as integers counting units of 0.005, so 0.3 is 60,    *)
(* 0.5 is 100 and 1.0 is 200.  Every input is drawn from a grid of even    *)
(* multiples of the unit, which makes x * 1.5 and x * 0.5 exact.  Binary   *)
(* rounding of the float products is not modelled.                         *)
(*                                                                         *)
(* Optional values.  Python's None is the empty tuple, a present value x   *)
(* is the one-element tuple <<x>>.  A dict is a function whose domain is   *)
(* the set of keys it holds.                                               *)
(***************************************************************************)
EXTENDS Integers, Sequences, FiniteSets, TLC

VARIABLES
    decision_conf,   \* choose_belief_action: the decision_conf argument
    metrics,         \* choose_belief_action: the BeliefMetrics argument
    hook_out,        \* None before the call, Some(returned pair) after it
    gd_self,         \* get_divergence: the BeliefMetrics it is called on
    gd_metric_type,  \* get_divergence: the metric_type argument
    gd_out,          \* None before the call, Some(returned float) after it
    detected_type,   \* map_detection_to_concepts: the detected_type argument
    metadata,        \* map_detection_to_concepts: the metadata argument
    map_out,         \* None before the call, Some(returned pair) after it
    graph,           \* WorldGraph.graph: node -> (neighbour -> edge label)
    properties,      \* entity -> its properties dict
    next_id,         \* the identity the next Concept node created will get
    wg_ret,          \* the last add_or_update_concept_annotation call and its result
    first_node,      \* history: entity -> the Concept node its first call returned
    last_annotation, \* history: entity -> the arguments of its latest call
    calls,           \* history: entity -> number of annotation calls so far
    serialized,      \* the last serialize_concept_layer result
    log_files,       \* _iter_json_records: the files, each a sequence of lines
    reader_out,      \* None before the read, Some(list of yielded records) after
    ps_records,      \* _prepare_series: the records argument
    ps_key,          \* _prepare_series: the divergence_key argument
    ps_out           \* None before the call, Some(returned triple) after it

hookVars == <<decision_conf, metrics, hook_out>>

gdVars == <<gd_self, gd_metric_type, gd_out>>

mapVars == <<detected_type, metadata, map_out>>

wgVars ==
    <<graph, properties, next_id, wg_ret, first_node, last_annotation, calls, serialized>>

readerVars == <<log_files, reader_out>>

psVars == <<ps_records, ps_key, ps_out>>

vars == <<hookVars, gdVars, mapVars, wgVars, readerVars, psVars>>

None == <<>>

Some(x) == <<x>>

EmptyDict == [k \in {} |-> 0]

\* dict.get(key, default)
Get(d, key, default) == IF key \in DOMAIN d THEN d[key] ELSE default

\* ------------------------------------------------------------------------
\* habitat_llm/planner/belief_hooks.py
\* ------------------------------------------------------------------------

\* Defaults of the hook's options: 0.3 and 0.5.
DefaultDivThreshold == 60

DefaultConfidenceThreshold == 100

\* x * 1.5 and x * 0.5 on the even grid.
Times15(x) == (x * 3) \div 2

Times05(x) == x \div 2

\* bool(self.divergence_metrics): neither None nor an empty dict
Truthy(dm) == dm # None /\ DOMAIN dm[1] # {}

\* get_divergence consulting the named metrics before the scalar field.
get_divergence_dict_first(self, metric_type) ==
    IF Truthy(self.divergence_metrics)
       /\ metric_type \in DOMAIN self.divergence_metrics[1]
    THEN self.divergence_metrics[1][metric_type]
    ELSE self.belief_divergence

\* BeliefMetrics.get_divergence
get_divergence(self, metric_type) ==
    IF metric_type = "belief_divergence"
    THEN self.belief_divergence
    ELSE IF Truthy(self.divergence_metrics)
            /\ metric_type \in DOMAIN self.divergence_metrics[1]
         THEN self.divergence_metrics[1][metric_type]
         ELSE self.belief_divergence

\* A reason string: the literal text, with the values an f-string formats
\* into it kept beside it.
Plain(s) == [fmt |-> s, args |-> <<>>]

Fmt(s, a) == [fmt |-> s, args |-> a]

Ret(action, reason) == [action |-> action, reason |-> reason]

\* Decide with the confidence rule tried before the correction rule.
DecideConfidenceFirst(conf, m, r) ==
    IF m.avg_concept_confidence < r.confidence_threshold
    THEN Ret(Some(Get(conf, "low_confidence_action", "AppendObservation")),
             Fmt("Average concept confidence {:.2f} is below threshold {:.2f}.",
                 <<m.avg_concept_confidence, r.confidence_threshold>>))
    ELSE IF r.active_divergence >= r.correction_threshold
    THEN Ret(Some(Get(conf, "correction_action", "CorrectHuman")),
             Fmt("Belief divergence ({}) {:.2f} exceeds correction threshold {:.2f}.",
                 <<r.divergence_metric_type, r.active_divergence, r.correction_threshold>>))
    ELSE IF r.l2d_enabled /\ r.active_divergence >= r.l2d_threshold
    THEN Ret(Some(Get(conf, "l2d_action", "LookToDisambiguate")),
             Fmt("Divergence ({}) {:.2f} exceeds L2D threshold {:.2f}.",
                 <<r.divergence_metric_type, r.active_divergence, r.l2d_threshold>>))
    ELSE IF r.active_divergence >= r.div_threshold
    THEN Ret(Some(Get(conf, "high_divergence_action", "AskHuman")),
             Fmt("Belief divergence ({}) {:.2f} exceeds threshold {:.2f}.",
                 <<r.divergence_metric_type, r.active_divergence, r.div_threshold>>))
    ELSE Ret(None, Plain(m.note))

\* The rules of choose_belief_action once the options are resolved.
Decide(conf, m, r) ==
    LET divergence_metric_type == r.divergence_metric_type
        active_divergence == r.active_divergence
        div_threshold == r.div_threshold
        correction_threshold == r.correction_threshold
        confidence_threshold == r.confidence_threshold
        l2d_threshold == r.l2d_threshold
        l2d_enabled == r.l2d_enabled
    IN
    IF active_divergence >= correction_threshold
    THEN Ret(Some(Get(conf, "correction_action", "CorrectHuman")),
             Fmt("Belief divergence ({}) {:.2f} exceeds correction threshold {:.2f}.",
                 <<divergence_metric_type, active_divergence, correction_threshold>>))
    ELSE IF m.avg_concept_confidence < confidence_threshold
    THEN Ret(Some(Get(conf, "low_confidence_action", "AppendObservation")),
             Fmt("Average concept confidence {:.2f} is below threshold {:.2f}.",
                 <<m.avg_concept_confidence, confidence_threshold>>))
    ELSE IF l2d_enabled /\ active_divergence >= l2d_threshold
    THEN Ret(Some(Get(conf, "l2d_action", "LookToDisambiguate")),
             Fmt("Divergence ({}) {:.2f} exceeds L2D threshold {:.2f}.",
                 <<divergence_metric_type, active_divergence, l2d_threshold>>))
    ELSE IF active_divergence >= div_threshold
    THEN Ret(Some(Get(conf, "high_divergence_action", "AskHuman")),
             Fmt("Belief divergence ({}) {:.2f} exceeds threshold {:.2f}.",
                 <<divergence_metric_type, active_divergence, div_threshold>>))
    ELSE Ret(None, Plain(m.note))

\* Resolve with the derived defaults taken from the default base threshold
\* instead of the configured one.
ResolveFromDefaultBase(conf, m) ==
    LET divergence_metric_type == Get(conf, "divergence_metric_type", "belief_divergence")
        div_threshold == Get(conf, "divergence_threshold", DefaultDivThreshold)
    IN  Decide(conf, m,
               [divergence_metric_type |-> divergence_metric_type,
                active_divergence |-> get_divergence(m, divergence_metric_type),
                div_threshold |-> div_threshold,
                correction_threshold |->
                    Get(conf, "correction_divergence_threshold", Times15(DefaultDivThreshold)),
                confidence_threshold |->
                    Get(conf, "concept_confidence_threshold", DefaultConfidenceThreshold),
                l2d_threshold |->
                    Get(conf, "l2d_divergence_threshold", Times05(DefaultDivThreshold)),
                l2d_enabled |-> Get(conf, "l2d_action_enabled", FALSE)])

\* The option resolution of choose_belief_action (lines 50-57).
Resolve(conf, m) ==
    LET divergence_metric_type == Get(conf, "divergence_metric_type", "belief_divergence")
        active_divergence == get_divergence(m, divergence_metric_type)
        div_threshold == Get(conf, "divergence_threshold", DefaultDivThreshold)
        correction_threshold ==
            Get(conf, "correction_divergence_threshold", Times15(div_threshold))
        confidence_threshold ==
            Get(conf, "concept_confidence_threshold", DefaultConfidenceThreshold)
        l2d_threshold == Get(conf, "l2d_divergence_threshold", Times05(div_threshold))
        l2d_enabled == Get(conf, "l2d_action_enabled", FALSE)
    IN  Decide(conf, m,
               [divergence_metric_type |-> divergence_metric_type,
                active_divergence |-> active_divergence,
                div_threshold |-> div_threshold,
                correction_threshold |-> correction_threshold,
                confidence_threshold |-> confidence_threshold,
                l2d_threshold |-> l2d_threshold,
                l2d_enabled |-> l2d_enabled])

\* choose_belief_action without the cbwm_enabled test.
choose_belief_action_no_switch(conf, m) ==
    IF conf = None
    THEN Ret(None, Plain(""))
    ELSE Resolve(conf[1], m)

\* choose_belief_action(decision_conf, metrics)
choose_belief_action(conf, m) ==
    IF conf = None
    THEN Ret(None, Plain(""))
    ELSE IF ~Get(conf[1], "cbwm_enabled", TRUE)
    THEN Ret(None, Plain("CBWM hooks disabled."))
    ELSE Resolve(conf[1], m)

\* ---- inputs of the hook ----
MaxDivK == 3

MaxConfK == 1

DivGrid == {30 * k : k \in 0..MaxDivK}

ThresholdGrid == {30 * k : k \in 1..MaxDivK}

ConfGrid == {100 * k : k \in 0..MaxConfK}

\* A dict holding either nothing or the one key with one of the values.
Opt(key, values) == {EmptyDict} \cup {key :> v : v \in values}

ActionKeys ==
    {"correction_action", "low_confidence_action", "l2d_action", "high_divergence_action"}

CustomAction(key) == "custom_" \o key

ActionDicts == {[k \in S |-> CustomAction(k)] : S \in {{}, ActionKeys}}

HookConfigs ==
    {a @@ b @@ c @@ d @@ e @@ f @@ g @@ h :
        a \in Opt("cbwm_enabled", BOOLEAN),
        b \in Opt("divergence_metric_type", {"belief_divergence", "concept_js_divergence"}),
        c \in Opt("divergence_threshold", ThresholdGrid),
        d \in Opt("correction_divergence_threshold", ThresholdGrid),
        e \in Opt("concept_confidence_threshold", ConfGrid \ {0}),
        f \in Opt("l2d_divergence_threshold", ThresholdGrid),
        g \in Opt("l2d_action_enabled", BOOLEAN),
        h \in ActionDicts}

HookDivergenceMetrics == {None} \cup {Some("concept_js_divergence" :> v) : v \in DivGrid}

HookMetrics ==
    [avg_concept_confidence : ConfGrid,
     belief_divergence : DivGrid,
     divergence_metrics : HookDivergenceMetrics,
     note : {"steady"}]

HookIdle == decision_conf = None /\ metrics = None /\ hook_out = None

GdIdle == gd_self = None /\ gd_metric_type = None /\ gd_out = None

MapIdle == detected_type = None /\ metadata = None /\ map_out = None

WgIdle ==
    /\ graph = EmptyDict /\ properties = EmptyDict /\ next_id = 0 /\ wg_ret = None
    /\ first_node = EmptyDict /\ last_annotation = EmptyDict /\ calls = EmptyDict
    /\ serialized = None

ReaderIdle == log_files = None /\ reader_out = None

PsIdle == ps_records = None /\ ps_key = None /\ ps_out = None

InitHook ==
    /\ decision_conf \in {None} \cup {Some(c) : c \in HookConfigs}
    /\ metrics \in HookMetrics
    /\ hook_out = None
    /\ GdIdle /\ MapIdle /\ WgIdle /\ ReaderIdle /\ PsIdle

\* The planner calls the hook on the step's configuration and snapshot.
CallHook ==
    /\ hook_out = None
    /\ hook_out' = Some(choose_belief_action(decision_conf, metrics))
    /\ UNCHANGED <<decision_conf, metrics, gdVars, mapVars, wgVars, readerVars, psVars>>

NextHook == CallHook

SpecHook == InitHook /\ [][NextHook]_vars


\* ------------------------------------------------------------------------
\* Properties of choose_belief_action (SpecHook)
\* ------------------------------------------------------------------------

HookCalled == hook_out # None

HookResult == hook_out[1]

HookConf == decision_conf[1]

HookEnabled ==
    /\ decision_conf # None
    /\ ("cbwm_enabled" \in DOMAIN HookConf => HookConf["cbwm_enabled"])

\* The quantities the decision rules are stated over, read off the inputs.
OptionOr(key, default) == IF key \in DOMAIN HookConf THEN HookConf[key] ELSE default

MetricName == OptionOr("divergence_metric_type", "belief_divergence")

NamedMetrics ==
    IF metrics.divergence_metrics = None THEN EmptyDict ELSE metrics.divergence_metrics[1]

ActiveDivergence ==
    IF MetricName # "belief_divergence" /\ MetricName \in DOMAIN NamedMetrics
    THEN NamedMetrics[MetricName]
    ELSE metrics.belief_divergence

DivergenceThreshold == OptionOr("divergence_threshold", 60)

CorrectionThreshold ==
    OptionOr("correction_divergence_threshold", (3 * DivergenceThreshold) \div 2)

ConfidenceThreshold == OptionOr("concept_confidence_threshold", 100)

L2dThreshold == OptionOr("l2d_divergence_threshold", DivergenceThreshold \div 2)

RuleA == ActiveDivergence >= CorrectionThreshold

RuleB == metrics.avg_concept_confidence < ConfidenceThreshold

RuleC == OptionOr("l2d_action_enabled", FALSE) /\ ActiveDivergence >= L2dThreshold

RuleD == ActiveDivergence >= DivergenceThreshold

\* C1: with the hooks enabled, the returned action is that of the first of
\* the rules (a) correction, (b) low confidence, (c) L2D, (d) high
\* divergence that holds, whatever the order of the thresholds; when none
\* holds the result is (None, metrics.note); the action is None exactly
\* when none of the four rules holds.
C1_FirstRuleWins ==
    (HookCalled /\ HookEnabled) =>
        /\ RuleA => HookResult.action = Some(OptionOr("correction_action", "CorrectHuman"))
        /\ (~RuleA /\ RuleB) =>
              HookResult.action = Some(OptionOr("low_confidence_action", "AppendObservation"))
        /\ (~RuleA /\ ~RuleB /\ RuleC) =>
              HookResult.action = Some(OptionOr("l2d_action", "LookToDisambiguate"))
        /\ (~RuleA /\ ~RuleB /\ ~RuleC /\ RuleD) =>
              HookResult.action = Some(OptionOr("high_divergence_action", "AskHuman"))
        /\ (~RuleA /\ ~RuleB /\ ~RuleC /\ ~RuleD) =>
              HookResult = [action |-> None, reason |-> [fmt |-> metrics.note, args |-> <<>>]]
        /\ (HookResult.action = None) <=> ~(RuleA \/ RuleB \/ RuleC \/ RuleD)

\* Rules (a) and (b) hold together, with the correction threshold below the
\* L2D threshold and the L2D threshold above the warning threshold, and the
\* hook answered with the correction action.
C1_Witness ==
    /\ HookCalled /\ HookEnabled
    /\ RuleA /\ RuleB /\ RuleC /\ RuleD
    /\ CorrectionThreshold < DivergenceThreshold
    /\ DivergenceThreshold < L2dThreshold
    /\ HookResult.action = Some("CorrectHuman")

\* C2: a config whose cbwm_enabled is false yields (None, "CBWM hooks
\* disabled.") for every snapshot and every other option; an absent config
\* yields (None, "").
C2_DisabledShortCircuit ==
    HookCalled =>
        /\ decision_conf = None =>
              HookResult = [action |-> None, reason |-> [fmt |-> "", args |-> <<>>]]
        /\ (decision_conf # None /\ ~HookEnabled) =>
              HookResult = [action |-> None,
                            reason |-> [fmt |-> "CBWM hooks disabled.", args |-> <<>>]]

\* The hooks are switched off while the divergence is above the configured
\* correction threshold and the confidence is below its threshold.
C2_Witness ==
    /\ HookCalled
    /\ decision_conf # None
    /\ ~HookEnabled
    /\ "correction_divergence_threshold" \in DOMAIN HookConf
    /\ RuleA /\ RuleB
    /\ HookResult.reason.fmt = "CBWM hooks disabled."

\* C7: (the claim as stated) with the hooks enabled, a divergence below the
\* correction threshold but at or above the warning threshold, and a
\* confidence at or above its threshold, the action is high_divergence_action.
C7_ThreeStepHierarchy ==
    (HookCalled /\ HookEnabled /\ ~RuleA /\ ~RuleB /\ RuleD) =>
        HookResult.action = Some(OptionOr("high_divergence_action", "AskHuman"))

\* The documented value of every threshold option the config leaves out.
DocumentedDefaults ==
    [divergence_metric_type |-> "belief_divergence",
     divergence_threshold |-> 60,
     correction_divergence_threshold |-> 90,
     concept_confidence_threshold |-> 100,
     l2d_divergence_threshold |-> 30,
     l2d_action_enabled |-> FALSE]

DerivedFromConfigured ==
    [correction_divergence_threshold |-> (3 * HookConf["divergence_threshold"]) \div 2,
     l2d_divergence_threshold |-> HookConf["divergence_threshold"] \div 2]

\* The threshold a returned reason reports having compared against.
ReportedThreshold == HookResult.reason.args[Len(HookResult.reason.args)]

MetricNames == {"belief_divergence", "concept_js_divergence", "concept_kl_divergence"}

RecordedNames == {"belief_divergence", "concept_js_divergence"}

GdDivergenceMetrics ==
    {None} \cup {Some(d) : d \in UNION {[S -> DivGrid] : S \in SUBSET RecordedNames}}

GdMetrics ==
    [avg_concept_confidence : {200},
     belief_divergence : DivGrid,
     divergence_metrics : GdDivergenceMetrics,
     note : {""}]

InitDivergence ==
    /\ gd_self \in GdMetrics
    /\ gd_metric_type \in MetricNames
    /\ gd_out = None
    /\ HookIdle /\ MapIdle /\ WgIdle /\ ReaderIdle /\ PsIdle

CallGetDivergence ==
    /\ gd_out = None
    /\ gd_out' = Some(get_divergence(gd_self, gd_metric_type))
    /\ UNCHANGED <<gd_self, gd_metric_type, hookVars, mapVars, wgVars, readerVars, psVars>>

NextDivergence == CallGetDivergence

SpecDivergence == InitDivergence /\ [][NextDivergence]_vars

GdNamed == IF gd_self.divergence_metrics = None THEN EmptyDict ELSE gd_self.divergence_metrics[1]

\* C3: get_divergence(m) returns the scalar belief_divergence when m is
\* "belief_divergence", whatever divergence_metrics holds under that name;
\* divergence_metrics[m] for any other name it holds; the scalar when
\* divergence_metrics is absent, empty or lacks m; and always a number.
C3_GetDivergence ==
    gd_out # None =>
        /\ gd_out[1] \in Int
        /\ gd_metric_type = "belief_divergence" => gd_out[1] = gd_self.belief_divergence
        /\ (gd_metric_type # "belief_divergence" /\ gd_metric_type \in DOMAIN GdNamed) =>
              gd_out[1] = GdNamed[gd_metric_type]
        /\ gd_metric_type \notin DOMAIN GdNamed => gd_out[1] = gd_self.belief_divergence

\* divergence_metrics holds a "belief_divergence" entry that differs from
\* the scalar field, and the lookup by that name returned the scalar.
C3_Witness ==
    /\ gd_out # None
    /\ gd_metric_type = "belief_divergence"
    /\ "belief_divergence" \in DOMAIN GdNamed
    /\ GdNamed["belief_divergence"] # gd_self.belief_divergence
    /\ gd_out[1] = gd_self.belief_divergence

\* ------------------------------------------------------------------------
\* habitat_llm/perception/concept_mapping.py (SpecMapping)
\* ------------------------------------------------------------------------

\* map_detection_to_concepts with the lexicon test inverted.
map_detection_to_concepts_inverted(type, meta) ==
    IF type = None
    THEN <<<<>>, <<>>>>
    ELSE IF meta # None /\ type[1] \in meta[1].lexicon
         THEN <<<<type[1], "unknown">>, <<200, 20>>>>
         ELSE <<<<type[1]>>, <<200>>>>

\* map_detection_to_concepts(detected_type, metadata); 1.0 is 200, 0.1 is 20
map_detection_to_concepts(type, meta) ==
    IF type = None
    THEN <<<<>>, <<>>>>
    ELSE LET labels == <<type[1]>>
             confidences == <<200>>
         IN  IF meta # None /\ type[1] \notin meta[1].lexicon
             THEN <<Append(labels, "unknown"), Append(confidences, 20)>>
             ELSE <<labels, confidences>>

SemanticTypes == {"chair", "mug", "sofa", "unknown"}

InitMapping ==
    /\ detected_type \in {None} \cup {Some(t) : t \in SemanticTypes}
    /\ metadata \in {None} \cup {Some([lexicon |-> L]) : L \in SUBSET SemanticTypes}
    /\ map_out = None
    /\ HookIdle /\ GdIdle /\ WgIdle /\ ReaderIdle /\ PsIdle

CallMapDetection ==
    /\ map_out = None
    /\ map_out' = Some(map_detection_to_concepts(detected_type, metadata))
    /\ UNCHANGED <<detected_type, metadata, hookVars, gdVars, wgVars, readerVars, psVars>>

NextMapping == CallMapDetection

SpecMapping == InitMapping /\ [][NextMapping]_vars

\* C4: no detection maps to ([], []); a detected type maps to ([type], [1.0])
\* when no lexicon is supplied or the type is in it, and to ([type,
\* "unknown"], [1.0, 0.1]) when a lexicon is supplied that lacks the type;
\* labels and confidences always have the same length.
C4_MapDetection ==
    map_out # None =>
        /\ Len(map_out[1][1]) = Len(map_out[1][2])
        /\ detected_type = None => map_out[1] = <<<<>>, <<>>>>
        /\ (detected_type # None
              /\ (metadata = None \/ detected_type[1] \in metadata[1].lexicon)) =>
              map_out[1] = <<<<detected_type[1]>>, <<200>>>>
        /\ (detected_type # None /\ metadata # None
              /\ detected_type[1] \notin metadata[1].lexicon) =>
              map_out[1] = <<<<detected_type[1], "unknown">>, <<200, 20>>>>

\* A detected type missing from a non-empty lexicon was mapped with the
\* "unknown" fallback.
C4_Witness ==
    /\ map_out # None
    /\ detected_type = Some("sofa")
    /\ metadata # None
    /\ metadata[1].lexicon = {"chair", "mug"}
    /\ map_out[1] = <<<<"sofa", "unknown">>, <<200, 20>>>>


\* ------------------------------------------------------------------------
\* The concept annotation layer of the world graph (SpecGraph).  The
\* repository's world_graph module is exercised by tests/test_concept_layer.py;
\* its operations are modelled from the specification, sections 3 and 4.2.
\* ------------------------------------------------------------------------

NumEntities == 2

MaxCalls == 2

Entities == {[kind |-> "Object", id |-> i] : i \in 1..NumEntities}

ConceptNode(n) == [kind |-> "Concept", id |-> n]

\* The (labels, confidences) pairs the callers pass; 0.8 is 160, 0.9 is 180.
Annotations ==
    {<<<<"cup">>, <<160>>>>, <<<<"cup">>, <<180>>>>, <<<<"mug", "unknown">>, <<200, 20>>>>}

\* Lookup that never finds the entity's Concept node.
FindConceptNever(g, entity) == {}

\* The Concept nodes of the graph with a "describes" edge to the entity.
FindConcept(g, entity) ==
    {c \in DOMAIN g : c.kind = "Concept" /\ entity \in DOMAIN g[c]
                      /\ g[c][entity] = "describes"}

\* Annotation that extends the stored labels and confidences.
AnnotateAppending(props, labels, confidences) ==
    ("concept_labels" :> (Get(props, "concept_labels", <<>>) \o labels))
    @@ ("concept_confidence" :> (Get(props, "concept_confidence", <<>>) \o confidences))
    @@ props

\* entity.properties after the two keys are written.
Annotate(props, labels, confidences) ==
    ("concept_labels" :> labels) @@ ("concept_confidence" :> confidences) @@ props

InitGraph ==
    /\ graph = EmptyDict
    /\ properties = [e \in Entities |-> [type |-> "mug"]]
    /\ next_id = 1
    /\ wg_ret = None
    /\ first_node = [e \in Entities |-> None]
    /\ last_annotation = [e \in Entities |-> None]
    /\ calls = [e \in Entities |-> 0]
    /\ serialized = None
    /\ HookIdle /\ GdIdle /\ MapIdle /\ ReaderIdle /\ PsIdle

\* WorldGraph.add_node(entity)
AddNode(entity) ==
    /\ entity \notin DOMAIN graph
    /\ graph' = graph @@ (entity :> EmptyDict)
    /\ UNCHANGED <<properties, next_id, wg_ret, first_node, last_annotation, calls,
                   serialized, hookVars, gdVars, mapVars, readerVars, psVars>>

\* WorldGraph.add_or_update_concept_annotation(entity, labels, confidences)
AddOrUpdateConceptAnnotation(entity, labels, confidences) ==
    /\ entity \in DOMAIN graph
    /\ Len(labels) = Len(confidences)
    /\ calls[entity] < MaxCalls
    /\ properties' = [properties EXCEPT ![entity] = Annotate(@, labels, confidences)]
    /\ LET existing == FindConcept(graph, entity)
           node == IF existing = {} THEN ConceptNode(next_id) ELSE CHOOSE c \in existing : TRUE
       IN  /\ graph' = IF existing = {}
                       THEN graph @@ (node :> (entity :> "describes"))
                       ELSE graph
           /\ next_id' = IF existing = {} THEN next_id + 1 ELSE next_id
           /\ wg_ret' = Some([entity |-> entity, node |-> node])
           /\ first_node' = IF first_node[entity] = None
                            THEN [first_node EXCEPT ![entity] = Some(node)]
                            ELSE first_node
    /\ last_annotation' = [last_annotation EXCEPT ![entity] = Some(<<labels, confidences>>)]
    /\ calls' = [calls EXCEPT ![entity] = @ + 1]
    /\ UNCHANGED <<serialized, hookVars, gdVars, mapVars, readerVars, psVars>>

RECURSIVE InIdOrder(_)
\* The entities of a set as a sequence, by increasing id.
InIdOrder(S) ==
    IF S = {}
    THEN <<>>
    ELSE LET first == CHOOSE e \in S : \A o \in S : e.id <= o.id
         IN  <<first>> \o InIdOrder(S \ {first})

\* WorldGraph.serialize_concept_layer()
serialize_concept_layer(g, props) ==
    LET annotated == InIdOrder({e \in DOMAIN g : e.kind = "Object"
                                                 /\ "concept_labels" \in DOMAIN props[e]})
    IN  [entity_concepts |->
            [i \in 1..Len(annotated) |->
                [entity |-> annotated[i].id,
                 concept_labels |-> props[annotated[i]]["concept_labels"],
                 concept_confidence |-> props[annotated[i]]["concept_confidence"]]]]

SerializeConceptLayer ==
    /\ serialized' = Some(serialize_concept_layer(graph, properties))
    /\ UNCHANGED <<graph, properties, next_id, wg_ret, first_node, last_annotation, calls,
                   hookVars, gdVars, mapVars, readerVars, psVars>>

NextGraph ==
    \/ \E e \in Entities : AddNode(e)
    \/ \E e \in Entities, a \in Annotations : AddOrUpdateConceptAnnotation(e, a[1], a[2])
    \/ SerializeConceptLayer

SpecGraph == InitGraph /\ [][NextGraph]_vars

AnnotatedEntities == {e \in Entities : last_annotation[e] # None}

ConceptNodes == {c \in DOMAIN graph : c.kind = "Concept"}

\* C5: every annotated entity has exactly one Concept node pointing at it,
\* by an edge labelled "describes"; the graph holds as many Concept nodes as
\* annotated entities; and every call returns the Concept node the entity's
\* first call returned.
C5_OneConceptPerEntity ==
    /\ \A e \in AnnotatedEntities :
          /\ Cardinality({c \in ConceptNodes : e \in DOMAIN graph[c]}) = 1
          /\ \A c \in ConceptNodes : e \in DOMAIN graph[c] => graph[c][e] = "describes"
    /\ Cardinality(ConceptNodes) = Cardinality(AnnotatedEntities)
    /\ wg_ret # None =>
          /\ wg_ret[1].node \in ConceptNodes
          /\ wg_ret[1].node = first_node[wg_ret[1].entity][1]

\* Both entities are annotated, one of them for the second time, and the
\* call returned the node of its first call.
C5_Witness ==
    /\ AnnotatedEntities = Entities
    /\ wg_ret # None
    /\ calls[wg_ret[1].entity] = 2
    /\ wg_ret[1].node = first_node[wg_ret[1].entity][1]
    /\ Cardinality(ConceptNodes) = Cardinality(Entities)

\* C6: each annotated entity's concept_labels and concept_confidence are
\* exactly the arguments of its latest call, and serialize_concept_layer
\* reports one entry per annotated entity with those values.
C6_LastObservationWins ==
    /\ \A e \in AnnotatedEntities :
          /\ properties[e]["concept_labels"] = last_annotation[e][1][1]
          /\ properties[e]["concept_confidence"] = last_annotation[e][1][2]
    /\ LET entries == serialize_concept_layer(graph, properties).entity_concepts
       IN  /\ Len(entries) = Cardinality(AnnotatedEntities)
           /\ \A e \in AnnotatedEntities :
                 \E i \in 1..Len(entries) :
                    /\ entries[i].entity = e.id
                    /\ entries[i].concept_labels = last_annotation[e][1][1]
                    /\ entries[i].concept_confidence = last_annotation[e][1][2]

\* An entity annotated with ["cup"], [0.8] and then again now carries
\* ["cup"], [0.9], and the serialized layer taken afterwards reports [0.9].
C6_Witness ==
    /\ wg_ret # None
    /\ calls[wg_ret[1].entity] = 2
    /\ last_annotation[wg_ret[1].entity] = Some(<<<<"cup">>, <<180>>>>)
    /\ properties[wg_ret[1].entity]["concept_confidence"] = <<180>>
    /\ serialized # None
    /\ serialized[1] = serialize_concept_layer(graph, properties)
    /\ \E i \in 1..Len(serialized[1].entity_concepts) :
          /\ serialized[1].entity_concepts[i].entity = wg_ret[1].entity.id
          /\ serialized[1].entity_concepts[i].concept_confidence = <<180>>


\* ------------------------------------------------------------------------
\* scripts/visualize_belief_divergence.py: _iter_json_records (SpecReader)
\* ------------------------------------------------------------------------

MaxFiles == 2

MaxLines == 3

\* A parsed JSON value: its Python type and its text.
Json(type, text) == [type |-> type, text |-> text]

\* The lines a log file is made of.  The object and number lines are JSON
\* documents on their own; "[", "]" and the line ending in a comma are
\* pieces of an array printed over several lines; the last is a truncated
\* object, malformed wherever it stands.
ObjectLines == {"{\"step\": 1}", "{\"step\": 2}"}

NumberLines == {"7"}

ItemCommaLines == {"{\"step\": 3},"}

BlankLines == {"", "  "}

LogLines ==
    ObjectLines \cup NumberLines \cup ItemCommaLines \cup BlankLines \cup {"[", "]", "{\"step\":"}

\* str.strip()
Strip(line) == IF line \in BlankLines THEN "" ELSE line

\* json.loads(line) succeeds
WellFormed(line) == line \in ObjectLines \cup NumberLines

\* json.loads(line), for a well-formed line
JsonLoads(line) == Json(IF line \in ObjectLines THEN "dict" ELSE "int", line)

\* The element an array line stands for.
ItemOf(line) == IF line \in ItemCommaLines THEN Json("dict", "{\"step\": 3}") ELSE JsonLoads(line)

NonBlank(lines) == SelectSeq(lines, LAMBDA l : Strip(l) # "")

\* json.load(f) from the start of the file: None stands for JSONDecodeError,
\* Some(payload) for the parsed document; a list payload is the sequence of
\* its elements under type "list".
JsonLoad(lines) ==
    LET nb == NonBlank(lines)
        n == Len(nb)
    IN  IF n = 1 /\ WellFormed(nb[1])
        THEN Some([type |-> JsonLoads(nb[1]).type, items |-> <<JsonLoads(nb[1])>>])
        ELSE IF n >= 2 /\ nb[1] = "[" /\ nb[n] = "]"
                /\ (n > 2 => WellFormed(nb[n - 1]))
                /\ \A i \in 2..(n - 2) : nb[i] \in ItemCommaLines
        THEN Some([type |-> "list", items |-> [i \in 1..(n - 2) |-> ItemOf(nb[i + 1])]])
        ELSE None

\* What the whole-file retry yields from a parsed payload.
YieldPayload(payload) ==
    IF payload.type = "list"
    THEN SelectSeq(payload.items, LAMBDA item : item.type = "dict")
    ELSE IF payload.type = "dict"
    THEN payload.items
    ELSE <<>>

RECURSIVE ReadLines(_, _)
\* The body of "for line in f", from the line at position pos on.
ReadLines(lines, pos) ==
    IF pos > Len(lines)
    THEN <<>>
    ELSE LET line == Strip(lines[pos])
         IN  IF line = ""
             THEN ReadLines(lines, pos + 1)
             ELSE IF WellFormed(line)
             THEN <<JsonLoads(line)>> \o ReadLines(lines, pos + 1)
             ELSE LET payload == JsonLoad(lines)
                  IN  IF payload = None
                      \* "continue": f.seek(0) and json.load(f) have consumed the
                      \* file, so the line iterator resumes at its end
                      THEN ReadLines(lines, Len(lines) + 1)
                      \* "break" after yielding from the payload
                      ELSE YieldPayload(payload[1])

RECURSIVE IterJsonRecords(_)
\* _iter_json_records(paths), as the list of everything it yields
IterJsonRecords(paths) ==
    IF paths = <<>>
    THEN <<>>
    ELSE ReadLines(Head(paths), 1) \o IterJsonRecords(Tail(paths))

FilesOfLines == UNION {[1..n -> LogLines] : n \in 0..MaxLines}

InitReader ==
    /\ log_files \in UNION {[1..n -> FilesOfLines] : n \in 1..MaxFiles}
    /\ reader_out = None
    /\ HookIdle /\ GdIdle /\ MapIdle /\ WgIdle /\ PsIdle

\* main(): records = list(_iter_json_records(files))
ReadRecords ==
    /\ reader_out = None
    /\ reader_out' = Some(IterJsonRecords(log_files))
    /\ UNCHANGED <<log_files, hookVars, gdVars, mapVars, wgVars, psVars>>

NextReader == ReadRecords

SpecReader == InitReader /\ [][NextReader]_vars

\* A file the per-line reading of the claim applies to: a malformed line,
\* if it has one, is not rescued by the whole-file retry.
RetryFails(lines) ==
    (\E i \in 1..Len(lines) : Strip(lines[i]) # "" /\ ~WellFormed(lines[i]))
        => JsonLoad(lines) = None

RECURSIVE WellFormedRecords(_)
\* The records of the well-formed lines of the files, each once, in order.
WellFormedRecords(paths) ==
    IF paths = <<>>
    THEN <<>>
    ELSE LET good == SelectSeq(Head(paths), LAMBDA l : WellFormed(l))
         IN  [i \in 1..Len(good) |-> JsonLoads(good[i])] \o WellFormedRecords(Tail(paths))

\* C9: (the claim as stated) when no file's malformed line is rescued by the
\* whole-file retry, the reader yields the record of every well-formed line
\* exactly once, those after a malformed line included, file after file.
C9_MalformedLineSkipped ==
    (reader_out # None /\ \A i \in 1..Len(log_files) : RetryFails(log_files[i])) =>
        reader_out[1] = WellFormedRecords(log_files)

\* ------------------------------------------------------------------------
\* scripts/visualize_belief_divergence.py: _prepare_series (SpecSeries)
\* ------------------------------------------------------------------------

MaxRecords == 2

MaxStep == 1

\* JSON values of a record: a number or a dict, tagged with its type.
Num(n) == [type |-> "number", val |-> n]

DictV(d) == [type |-> "dict", val |-> d]

\* bool(value): a number other than 0, a dict other than {}
TruthyValue(v) == IF v.type = "number" THEN v.val # 0 ELSE DOMAIN v.val # {}

\* "a or b" over the optional values record.get returns
OrElse(a, b) == IF a # None /\ TruthyValue(a[1]) THEN a ELSE b

\* record.get(key)
GetOpt(record, key) == IF key \in DOMAIN record THEN Some(record[key]) ELSE None

\* _extract_metric(record, key)
ExtractMetric(record, key) ==
    IF key \in DOMAIN record /\ record[key].type = "number"
    THEN Some(record[key].val)
    ELSE LET metrics_field == GetOpt(record, "metrics")
             inner == IF metrics_field # None /\ TruthyValue(metrics_field[1])
                      THEN metrics_field[1]
                      ELSE DictV(EmptyDict)
         IN  IF inner.type = "dict" /\ key \in DOMAIN inner.val
                /\ inner.val[key].type = "number"
             THEN Some(inner.val[key].val)
             ELSE None

RECURSIVE SumOver(_, _)
\* sum(concepts.values())
SumOver(d, keys) ==
    IF keys = {}
    THEN 0
    ELSE LET k == CHOOSE x \in keys : TRUE IN d[k] + SumOver(d, keys \ {k})

\* _average_concept_confidence(record); the scores are chosen so that the
\* mean is a whole number of units
AverageConceptConfidence(record) ==
    LET concepts == GetOpt(record, "concept_confidence")
    IN  IF concepts # None /\ concepts[1].type = "dict" /\ DOMAIN concepts[1].val # {}
        THEN Some(SumOver(concepts[1].val, DOMAIN concepts[1].val)
                  \div Cardinality(DOMAIN concepts[1].val))
        ELSE ExtractMetric(record, "avg_concept_confidence")

\* The step of one record: idx is its 0-based position.
StepOf(record, idx) ==
    LET step == OrElse(GetOpt(record, "step"),
                       OrElse(GetOpt(record, "timestep"), GetOpt(record, "episode_step")))
    IN  IF step # None THEN step[1].val ELSE idx

\* The divergence of one record, with the fallback to aggregated dicts.
DivergenceOf(record, divergence_key) ==
    LET divergence == ExtractMetric(record, divergence_key)
        divergence_dict == OrElse(GetOpt(record, "divergence"),
                                  GetOpt(record, "belief_divergence"))
    IN  IF divergence = None /\ divergence_dict # None /\ divergence_dict[1].type = "dict"
           /\ divergence_key \in DOMAIN divergence_dict[1].val
        THEN Some(divergence_dict[1].val[divergence_key])
        ELSE divergence

OrDefault(opt, default) == IF opt # None THEN opt[1] ELSE default

\* _prepare_series(records, divergence_key); the default confidence 1.0 is 200
PrepareSeries(records, divergence_key) ==
    <<[i \in 1..Len(records) |-> StepOf(records[i], i - 1)],
      [i \in 1..Len(records) |-> OrDefault(AverageConceptConfidence(records[i]), 200)],
      [i \in 1..Len(records) |-> OrDefault(DivergenceOf(records[i], divergence_key), 0)]>>

StepFields ==
    {a @@ b @@ c :
        a \in Opt("step", {Num(k) : k \in 0..MaxStep}),
        b \in Opt("timestep", {Num(k) : k \in 0..MaxStep}),
        c \in Opt("episode_step", {Num(k) : k \in 0..MaxStep})}

MetricFields ==
    {EmptyDict,
     "avg_concept_confidence" :> Num(100),
     "metrics" :> DictV("avg_concept_confidence" :> Num(150) @@ "belief_divergence" :> Num(60)),
     "concept_confidence" :> DictV("cup" :> 100 @@ "mug" :> 200) @@ "belief_divergence" :> Num(90),
     "divergence" :> DictV("concept_js_divergence" :> 30),
     "belief_divergence" :> DictV("belief_divergence" :> 120)}

SeriesRecords == {a @@ b : a \in StepFields, b \in MetricFields}

InitSeries ==
    /\ ps_records \in UNION {[1..n -> SeriesRecords] : n \in 0..MaxRecords}
    /\ ps_key \in {"belief_divergence", "concept_js_divergence"}
    /\ ps_out = None
    /\ HookIdle /\ GdIdle /\ MapIdle /\ WgIdle /\ ReaderIdle

\* plot_metrics(): steps, confidences, divergences = _prepare_series(...)
CallPrepareSeries ==
    /\ ps_out = None
    /\ ps_out' = Some(PrepareSeries(ps_records, ps_key))
    /\ UNCHANGED <<ps_records, ps_key, hookVars, gdVars, mapVars, wgVars, readerVars>>

NextSeries == CallPrepareSeries

SpecSeries == InitSeries /\ [][NextSeries]_vars

\* C10: (the claim as stated) the three series are as long as the record
\* list; a record with a step field, 0 included, gets that step; timestep
\* is used only when step is absent, episode_step only when both are, and
\* the record's index only when all three are.
C10_StepSeries ==
    ps_out # None =>
        /\ \A s \in 1..3 : Len(ps_out[1][s]) = Len(ps_records)
        /\ \A i \in 1..Len(ps_records) :
              LET r == ps_records[i]
                  step == ps_out[1][1][i]
              IN  IF "step" \in DOMAIN r THEN step = r["step"].val
                  ELSE IF "timestep" \in DOMAIN r THEN step = r["timestep"].val
                  ELSE IF "episode_step" \in DOMAIN r THEN step = r["episode_step"].val
                  ELSE step = i - 1

=============================================================================
